---- MODULE Spec2Model ----
(***************************************************************************)
(* NBR-Restrictor: the filtering and history/future split operations of    *)
(* utils.py over one in-memory table of (user, basket, product) rows.      *)
(*                                                                         *)
(* A DataFrame is modelled as the sequence of its rows, each row a record  *)
(* over the three columns the operations read.  Boolean-mask selection     *)
(* (df[mask]) keeps row order, so it is SelectSeq.                         *)
(***************************************************************************)
EXTENDS Integers, Sequences, FiniteSets, TLC

\* ------------------------------------------------------------- bounds
NUsers    == 2    \* user ids of the generated inputs are 1..NUsers
NBaskets  == 2    \* order numbers of the generated inputs are 1..NBaskets
NProducts == 2    \* product ids of the generated inputs are 1..NProducts
MaxRows   == 3    \* generated inputs have at most MaxRows rows
MaxParam  == 3    \* n_users, n_products, min_*, max_* range over 0..MaxParam

\* ------------------------------------------------------------- columns
user_col    == "user_id"
basket_col  == "order_number"
product_col == "product_id"

Row(u, b, p) == [user_id |-> u, order_number |-> b, product_id |-> p]

Records == {Row(u, b, p) : u \in 1..NUsers, b \in 1..NBaskets, p \in 1..NProducts}

Min(a, b) == IF a <= b THEN a ELSE b

SetMax(S) == CHOOSE m \in S : \A x \in S : x <= m

\* ------------------------------------------------------------- pandas helpers

\* df[col].unique(): the distinct values of a column
unique(df, col) == {df[i][col] : i \in DOMAIN df}

\* df[df[col].isin(values)]
isin_rows(df, col, values) ==
    LET mask(r) == r[col] \in values
    IN  SelectSeq(df, mask)

\* mutant: a draw with replacement, sample(..., replace=True): the values drawn
\* may repeat, so between 1 and min(n, len) distinct values come out
sample_with_replacement(values, n) ==
    {S \in SUBSET values :
        /\ Cardinality(S) <= Min(n, Cardinality(values))
        /\ (S = {}) <=> (n = 0 \/ values = {})}

\* pd.Series(values).sample(n=min(n, len(values)), random_state=42): a subset of
\* min(n, len) of the values, drawn without replacement.  The seeded generator
\* fixes which one; every subset of that size is a possible draw here.
sample(values, n) ==
    {S \in SUBSET values : Cardinality(S) = Min(n, Cardinality(values))}

\* ------------------------------------------------------------- sample_random_users
\* mutant: as many rows taken as users were drawn, instead of the drawn users' rows
sample_random_users_rows(df, sampled_users) ==
    SubSeq(df, 1, Min(Cardinality(sampled_users), Len(df)))

sample_random_users(df, sampled_users) == isin_rows(df, user_col, sampled_users)

\* ------------------------------------------------------------- filter_users_by_purchase_range

\* df.groupby(user_col).size(): rows per user
user_purchase_counts(df) ==
    [u \in unique(df, user_col) |-> Cardinality({i \in DOMAIN df : df[i][user_col] = u})]

filter_users_by_purchase_range(df, min_purchases, max_purchases) ==
    LET counts == user_purchase_counts(df)
        in_range == {u \in DOMAIN counts :
                        counts[u] >= min_purchases /\ counts[u] <= max_purchases}
    IN  isin_rows(df, user_col, in_range)

\* ------------------------------------------------------------- filter_baskets_by_depth_range

\* mutant: rows counted per basket id alone, df.groupby(basket_col).size()
basket_item_counts_by_basket_id(df) ==
    [k \in {<<df[i][user_col], df[i][basket_col]>> : i \in DOMAIN df} |->
        Cardinality({i \in DOMAIN df : df[i][basket_col] = k[2]})]

\* df.groupby([user_col, basket_col]).size(): rows per (user, basket) pair
basket_item_counts(df) ==
    [k \in {<<df[i][user_col], df[i][basket_col]>> : i \in DOMAIN df} |->
        Cardinality({i \in DOMAIN df : <<df[i][user_col], df[i][basket_col]>> = k})]

baskets_in_range(df, min_items, max_items) ==
    LET counts == basket_item_counts(df)
    IN  {k \in DOMAIN counts : counts[k] >= min_items /\ counts[k] <= max_items}

filter_baskets_by_depth_range(df, min_items, max_items) ==
    LET in_range == baskets_in_range(df, min_items, max_items)
        mask(r) == <<r[user_col], r[basket_col]>> \in in_range
    IN  SelectSeq(df, mask)

\* ------------------------------------------------------------- filter_users_by_basket_count_range

\* mutant: rows counted per user, df.groupby(user_col).size()
user_basket_counts_rows(df) ==
    [u \in unique(df, user_col) |-> Cardinality({i \in DOMAIN df : df[i][user_col] = u})]

\* df.groupby(user_col)[basket_col].nunique(): distinct basket ids per user
user_basket_counts(df) ==
    [u \in unique(df, user_col) |->
        Cardinality({df[i][basket_col] : i \in {j \in DOMAIN df : df[j][user_col] = u}})]

\* mutant: the upper bound not tested
users_in_range_no_max(df, min_baskets, max_baskets) ==
    LET counts == user_basket_counts(df)
    IN  {u \in DOMAIN counts : counts[u] >= min_baskets}

users_in_range(df, min_baskets, max_baskets) ==
    LET counts == user_basket_counts(df)
    IN  {u \in DOMAIN counts : counts[u] >= min_baskets /\ counts[u] <= max_baskets}

\* mutant: the mask built on the basket column instead of the user column
filter_users_by_basket_count_range_wrong_col(df, min_baskets, max_baskets) ==
    isin_rows(df, basket_col, users_in_range(df, min_baskets, max_baskets))

filter_users_by_basket_count_range(df, min_baskets, max_baskets) ==
    isin_rows(df, user_col, users_in_range(df, min_baskets, max_baskets))

\* ------------------------------------------------------------- filter_by_product_assortment

\* df.groupby(basket_col)[product_col].apply(set): grouped by the basket column alone
basket_products(df) ==
    [b \in unique(df, basket_col) |->
        {df[i][product_col] : i \in {j \in DOMAIN df : df[j][basket_col] = b}}]

\* mutant: an intersection test in place of the subset test
valid_baskets_intersect(df, sampled_products_set) ==
    LET products == basket_products(df)
    IN  {b \in DOMAIN products : products[b] \cap sampled_products_set # {}}

valid_baskets(df, sampled_products_set) ==
    LET products == basket_products(df)
    IN  {b \in DOMAIN products : products[b] \subseteq sampled_products_set}

\* mutant: rows kept by their own product, df[df[product_col].isin(sampled_products)]
filter_by_product_assortment_rows(df, sampled_products_set) ==
    isin_rows(df, product_col, sampled_products_set)

filter_by_product_assortment(df, sampled_products_set) ==
    isin_rows(df, basket_col, valid_baskets(df, sampled_products_set))

\* ------------------------------------------------------------- split_history_future

\* df.groupby(user_col)[basket_col].nunique()
user_order_counts(df) ==
    [u \in unique(df, user_col) |->
        Cardinality({df[i][basket_col] : i \in {j \in DOMAIN df : df[j][user_col] = u}})]

\* mutant: the threshold of 2 orders taken as 1
users_with_multiple_orders_ge1(df) ==
    LET counts == user_order_counts(df)
    IN  {u \in DOMAIN counts : counts[u] >= 1}

users_with_multiple_orders(df) ==
    LET counts == user_order_counts(df)
    IN  {u \in DOMAIN counts : counts[u] >= 2}

SetMin(S) == CHOOSE m \in S : \A x \in S : m <= x

\* mutant: the oldest order taken for the most recent one
most_recent_orders_min(df_filtered) ==
    [u \in unique(df_filtered, user_col) |->
        SetMin({df_filtered[i][basket_col] :
                    i \in {j \in DOMAIN df_filtered : df_filtered[j][user_col] = u}})]

\* df_filtered.groupby(user_col)[basket_col].max()
most_recent_orders(df_filtered) ==
    [u \in unique(df_filtered, user_col) |->
        SetMax({df_filtered[i][basket_col] :
                    i \in {j \in DOMAIN df_filtered : df_filtered[j][user_col] = u}})]

\* df_filtered.merge(most_recent_orders renamed to max_order, on=user_col, how='left'):
\* every row gains its user's max_order; row count and order are those of df_filtered
merge_max_order(df_filtered) ==
    LET max_orders == most_recent_orders(df_filtered)
    IN  [i \in DOMAIN df_filtered |->
            [c \in DOMAIN df_filtered[i] \cup {"max_order"} |->
                IF c = "max_order"
                THEN max_orders[df_filtered[i][user_col]]
                ELSE df_filtered[i][c]]]

\* .drop(columns='max_order')
drop_max_order(d) ==
    [i \in DOMAIN d |-> Row(d[i][user_col], d[i][basket_col], d[i][product_col])]

split_history_future(df) ==
    IF df = <<>>
    THEN [history |-> df, future |-> df]
    ELSE LET df_filtered == isin_rows(df, user_col, users_with_multiple_orders(df))
         IN  IF df_filtered = <<>>
             THEN [history |-> df, future |-> df]
             ELSE LET df_with_max == merge_max_order(df_filtered)
                      future_mask(r) == r[basket_col] = r["max_order"]
                  IN  [history |-> drop_max_order(
                                     SelectSeq(df_with_max, LAMBDA r : ~future_mask(r))),
                       future  |-> drop_max_order(
                                     SelectSeq(df_with_max, LAMBDA r : future_mask(r)))]

\* ------------------------------------------------------------- state

VARIABLES
    df,          \* the working dataset
    op,          \* the operation applied last
    inp,         \* the dataset that operation was applied to
    n,           \* its n_users / n_products argument
    lo, hi,      \* its min_* / max_* arguments
    sampled,     \* the users / products its sample() drew
    history_df,  \* split_history_future's first result
    future_df,   \* split_history_future's second result
    columns,     \* df.columns, the column names of the working dataset
    pc,          \* where the program is: in a utils call, at the menu, ended
    choice,      \* the menu option entered last
    files,       \* the output files written so far
    established  \* the bounds of the last basket-count filter of a chain, if any

vars == <<df, op, inp, n, lo, hi, sampled, history_df, future_df,
          columns, pc, choice, files, established>>

\* what the operations of utils.py leave alone
mainVars == <<columns, pc, choice, files, established>>

AllColumns == {user_col, basket_col, product_col}

\* The inputs of section 8 of the specification.
\* Users A, B, C (1, 2, 3) with baskets {1,2,3}, {1} and {1,2}:
ScenarioSplit ==
    <<Row(1, 1, 1), Row(1, 2, 1), Row(1, 3, 1), Row(2, 1, 1), Row(3, 1, 1), Row(3, 2, 1)>>
\* One user with baskets of sizes 1, 2 and 4:
ScenarioDepth ==
    <<Row(1, 1, 1), Row(1, 2, 1), Row(1, 2, 2),
      Row(1, 3, 1), Row(1, 3, 2), Row(1, 3, 3), Row(1, 3, 4)>>

\* No operation reads the position of a row: a mask keeps or drops a row by its
\* column values, and the rows kept stay in their order.  The generated inputs
\* therefore carry their rows in one order, sorted by (user, basket, product).
IsSorted(s) == \A i \in 1..(Len(s) - 1) :
    \/ s[i][user_col] < s[i+1][user_col]
    \/ /\ s[i][user_col] = s[i+1][user_col]
       /\ \/ s[i][basket_col] < s[i+1][basket_col]
          \/ /\ s[i][basket_col] = s[i+1][basket_col]
             /\ s[i][product_col] <= s[i+1][product_col]

Datasets ==
    {s \in UNION {[1..k -> Records] : k \in 0..MaxRows} : IsSorted(s)}
        \cup {ScenarioSplit, ScenarioDepth}

\* One behaviour is one call: a dataset is loaded, one operation is applied to it.
\* The operations only drop rows, so the dataset a second call would receive is
\* again a dataset a first call receives (up to the two scenario inputs).
Init ==
    /\ df \in Datasets
    /\ op = "load"
    /\ inp = <<>>
    /\ n = 0 /\ lo = 0 /\ hi = 0
    /\ sampled = {}
    /\ history_df = <<>>
    /\ future_df = <<>>
    /\ columns = AllColumns
    /\ pc = "utils"
    /\ choice = ""
    /\ files = {}
    /\ established = <<>>

SampleRandomUsers ==
    /\ op = "load"
    /\ \E n_users \in 0..MaxParam :
        \E sampled_users \in sample(unique(df, user_col), n_users) :
            /\ df' = sample_random_users(df, sampled_users)
            /\ op' = "sample_random_users"
            /\ inp' = df
            /\ n' = n_users /\ lo' = 0 /\ hi' = 0
            /\ sampled' = sampled_users
            /\ history_df' = <<>> /\ future_df' = <<>>
            /\ UNCHANGED mainVars

FilterBasketsByDepthRange ==
    /\ op = "load"
    /\ \E min_items \in 0..MaxParam, max_items \in 0..MaxParam :
        /\ df' = filter_baskets_by_depth_range(df, min_items, max_items)
        /\ op' = "filter_baskets_by_depth_range"
        /\ inp' = df
        /\ n' = 0 /\ lo' = min_items /\ hi' = max_items
        /\ sampled' = {}
        /\ history_df' = <<>> /\ future_df' = <<>>
        /\ UNCHANGED mainVars

FilterUsersByBasketCountRange ==
    /\ op = "load"
    /\ \E min_baskets \in 0..MaxParam, max_baskets \in 0..MaxParam :
        /\ df' = filter_users_by_basket_count_range(df, min_baskets, max_baskets)
        /\ op' = "filter_users_by_basket_count_range"
        /\ inp' = df
        /\ n' = 0 /\ lo' = min_baskets /\ hi' = max_baskets
        /\ sampled' = {}
        /\ history_df' = <<>> /\ future_df' = <<>>
        /\ UNCHANGED mainVars

FilterByProductAssortment ==
    /\ op = "load"
    /\ \E n_products \in 0..MaxParam :
        \E sampled_products_set \in sample(unique(df, product_col), n_products) :
            /\ df' = filter_by_product_assortment(df, sampled_products_set)
            /\ op' = "filter_by_product_assortment"
            /\ inp' = df
            /\ n' = n_products /\ lo' = 0 /\ hi' = 0
            /\ sampled' = sampled_products_set
            /\ history_df' = <<>> /\ future_df' = <<>>
            /\ UNCHANGED mainVars

SplitHistoryFuture ==
    /\ op = "load"
    /\ LET result == split_history_future(df)
       IN  /\ history_df' = result.history
           /\ future_df' = result.future
    /\ op' = "split_history_future"
    /\ inp' = df
    /\ n' = 0 /\ lo' = 0 /\ hi' = 0
    /\ sampled' = {}
    /\ UNCHANGED df
    /\ UNCHANGED mainVars

Next ==
    \/ SampleRandomUsers
    \/ FilterBasketsByDepthRange
    \/ FilterUsersByBasketCountRange
    \/ FilterByProductAssortment
    \/ SplitHistoryFuture

Spec == Init /\ [][Next]_vars

\* ------------------------------------------------------------- vocabulary of the properties

Users(d) == {d[i][user_col] : i \in DOMAIN d}

Products(d) == {d[i][product_col] : i \in DOMAIN d}

\* the (user, basket) pairs of a dataset
Pairs(d) == {<<d[i][user_col], d[i][basket_col]>> : i \in DOMAIN d}

\* the rows of one user, of one (user, basket) pair
RowsOfUser(d, u) == SelectSeq(d, LAMBDA r : r[user_col] = u)

RowsOfPair(d, u, b) == SelectSeq(d, LAMBDA r : r[user_col] = u /\ r[basket_col] = b)

\* the distinct basket ids of one user
BasketsOf(d, u) == {d[i][basket_col] : i \in {j \in DOMAIN d : d[j][user_col] = u}}

\* how many times a row occurs
Occurrences(d, r) == Cardinality({i \in DOMAIN d : d[i] = r})

RowSet(d) == {d[i] : i \in DOMAIN d}

IsSplit == op = "split_history_future"

\* ------------------------------------------------------------- C1
\* C1: after split_history_future the users of history are the users of future.
C1_SameUsers ==
    IsSplit => Users(history_df) = Users(future_df)

\* a split of an input that holds a one-basket user beside a several-basket user
C1_Witness ==
    /\ IsSplit
    /\ \E u \in Users(inp) : Cardinality(BasketsOf(inp, u)) = 1
    /\ \E u \in Users(inp) : Cardinality(BasketsOf(inp, u)) >= 2
    /\ Users(history_df) = Users(future_df)
    /\ Users(history_df) # {}

\* ------------------------------------------------------------- C2
\* C2: the split outputs are disjoint by basket (no (user, basket) pair has rows
\* in both) and complete (for every user of an output, the rows of history and
\* of future together are, as a multiset, that user's rows of the input).
C2_DisjointComplete ==
    IsSplit =>
        /\ Pairs(history_df) \cap Pairs(future_df) = {}
        /\ \A u \in Users(history_df) \cup Users(future_df) :
              \A r \in RowSet(inp) \cup RowSet(history_df) \cup RowSet(future_df) :
                  r[user_col] = u =>
                      Occurrences(history_df, r) + Occurrences(future_df, r)
                          = Occurrences(inp, r)

\* ------------------------------------------------------------- C3
\* C3: a user with fewer than 2 distinct baskets in the input is in neither
\* output of the split; every user of an output has at least 2 in the input.
C3_SingleBasketUsersExcluded ==
    IsSplit =>
        \A u \in Users(inp) \cup Users(history_df) \cup Users(future_df) :
            Cardinality(BasketsOf(inp, u)) < 2 =>
                u \notin Users(history_df) \cup Users(future_df)

\* ------------------------------------------------------------- C4
\* C4: for every user with at least 2 distinct baskets, future holds exactly the
\* user's rows whose basket is the user's maximum basket and history exactly the
\* other rows of the user; so the user has one basket in future and at least one
\* in history.  On users A{1,2,3}, B{1}, C{1,2}: future is A:3, C:2 and history
\* is A:1,2 and C:1.
C4_FutureIsMaxBasket ==
    IsSplit =>
        /\ \A u \in Users(inp) :
              Cardinality(BasketsOf(inp, u)) >= 2 =>
                  LET m == SetMax(BasketsOf(inp, u))
                  IN  /\ RowsOfUser(future_df, u) = RowsOfPair(inp, u, m)
                      /\ RowsOfUser(history_df, u) =
                            SelectSeq(inp, LAMBDA r : r[user_col] = u /\ r[basket_col] # m)
                      /\ Cardinality(BasketsOf(future_df, u)) = 1
                      /\ Cardinality(BasketsOf(history_df, u)) >= 1
        /\ inp = ScenarioSplit =>
              /\ future_df = <<Row(1, 3, 1), Row(3, 2, 1)>>
              /\ history_df = <<Row(1, 1, 1), Row(1, 2, 1), Row(3, 1, 1)>>

\* the split of the scenario input, whose user A has two baskets in history
C4_Witness ==
    /\ IsSplit
    /\ inp = ScenarioSplit
    /\ BasketsOf(history_df, 1) = {1, 2}
    /\ BasketsOf(future_df, 1) = {3}

\* ------------------------------------------------------------- C5
\* C5: when the input of the split is not empty and no user has 2 distinct
\* baskets, history and future are both empty.
C5_EmptyOutputs ==
    (IsSplit /\ inp # <<>> /\ \A u \in Users(inp) : Cardinality(BasketsOf(inp, u)) < 2)
        => (history_df = <<>> /\ future_df = <<>>)

\* ------------------------------------------------------------- C6
IsFilter ==
    op \in {"sample_random_users", "filter_baskets_by_depth_range",
            "filter_users_by_basket_count_range", "filter_by_product_assortment"}

\* C6: after sample_random_users, filter_baskets_by_depth_range,
\* filter_users_by_basket_count_range or filter_by_product_assortment, every
\* (user, basket) pair of the output has as many rows in the output as in the
\* input: a basket is wholly kept or wholly dropped.
C6_WholeBaskets ==
    IsFilter =>
        \A k \in Pairs(df) :
            Len(RowsOfPair(df, k[1], k[2])) = Len(RowsOfPair(inp, k[1], k[2]))

\* an assortment filter that keeps a basket of several rows and drops another
C6_Witness ==
    /\ op = "filter_by_product_assortment"
    /\ \E k \in Pairs(df) : Len(RowsOfPair(df, k[1], k[2])) >= 2
    /\ Pairs(inp) \ Pairs(df) # {}

\* ------------------------------------------------------------- C7
\* C7: every (user, basket) pair kept by filter_by_product_assortment has all its
\* products in the sampled set, no kept row has a product outside it, and the
\* sampled set has min(n_products, distinct product count) elements.
C7_AssortmentSubset ==
    op = "filter_by_product_assortment" =>
        /\ \A k \in Pairs(df) : Products(RowsOfPair(inp, k[1], k[2])) \subseteq sampled
        /\ Products(df) \subseteq sampled
        /\ Cardinality(sampled) = Min(n, Cardinality(Products(inp)))

\* a proper sample of the products that keeps one basket and drops another
C7_Witness ==
    /\ op = "filter_by_product_assortment"
    /\ n < Cardinality(Products(inp))
    /\ df # <<>>
    /\ \E i \in DOMAIN inp : inp[i][product_col] \notin sampled

\* ------------------------------------------------------------- C8
\* C8: the output of sample_random_users(df, n), n >= 0, has exactly
\* min(n, distinct user count) users, each a user of the input with all of the
\* user's input rows.
C8_SampleUsers ==
    op = "sample_random_users" =>
        /\ Cardinality(Users(df)) = Min(n, Cardinality(Users(inp)))
        /\ Users(df) \subseteq Users(inp)
        /\ \A u \in Users(df) : RowsOfUser(df, u) = RowsOfUser(inp, u)

\* a sample of fewer users than the input has, one of them with several rows
C8_Witness ==
    /\ op = "sample_random_users"
    /\ n >= 1
    /\ n < Cardinality(Users(inp))
    /\ Cardinality(Users(df)) = n
    /\ Len(df) > n

\* ------------------------------------------------------------- C9
\* C9: the range filters are idempotent: filter_users_by_basket_count_range and
\* filter_baskets_by_depth_range, applied again with the same bounds to their own
\* output, return that output.
C9_RangeFiltersIdempotent ==
    /\ op = "filter_users_by_basket_count_range" =>
          filter_users_by_basket_count_range(df, lo, hi) = df
    /\ op = "filter_baskets_by_depth_range" =>
          filter_baskets_by_depth_range(df, lo, hi) = df

\* a basket-count filter that dropped some users and kept others
C9_Witness ==
    /\ op = "filter_users_by_basket_count_range"
    /\ df # <<>>
    /\ df # inp
    /\ filter_users_by_basket_count_range(df, lo, hi) = df

\* a depth filter that dropped some baskets and kept others
C9_WitnessDepth ==
    /\ op = "filter_baskets_by_depth_range"
    /\ df # <<>>
    /\ df # inp
    /\ filter_baskets_by_depth_range(df, lo, hi) = df

\* ------------------------------------------------------------- C10
\* C10: filter_baskets_by_depth_range(d, min, max) keeps exactly the rows whose
\* (user, basket) pair has a row count c in d with min <= c <= max, counted per
\* pair and not per basket id.  On baskets of sizes 1, 2 and 4 with range [2,3]
\* the rows of the size-2 basket remain, unchanged.
C10_DepthRangeExact ==
    op = "filter_baskets_by_depth_range" =>
        /\ df = SelectSeq(inp, LAMBDA r :
                    LET c == Len(RowsOfPair(inp, r[user_col], r[basket_col]))
                    IN  lo <= c /\ c <= hi)
        /\ (inp = ScenarioDepth /\ lo = 2 /\ hi = 3) =>
              df = <<Row(1, 2, 1), Row(1, 2, 2)>>

\* two users share a basket id with different depths; only one of the two is kept
C10_Witness ==
    /\ op = "filter_baskets_by_depth_range"
    /\ \E k \in Pairs(df) : \E j \in Pairs(inp) \ Pairs(df) : k[2] = j[2] /\ k[1] # j[1]

\* the depth scenario of the specification
C10_WitnessScenario ==
    /\ op = "filter_baskets_by_depth_range"
    /\ inp = ScenarioDepth /\ lo = 2 /\ hi = 3
    /\ df = <<Row(1, 2, 1), Row(1, 2, 2)>>

\* ------------------------------------------------------------- C11
\* C11: filter_users_by_basket_count_range(d, min, max) keeps exactly the rows of
\* the users whose number of distinct basket ids in d lies in [min, max]; rows
\* that repeat a basket id (several items, duplicate rows) do not change whether
\* a user is kept, as they would under a count of the user's rows.
C11_BasketCountExact ==
    op = "filter_users_by_basket_count_range" =>
        df = SelectSeq(inp, LAMBDA r :
                LET c == Cardinality(BasketsOf(inp, r[user_col]))
                IN  lo <= c /\ c <= hi)

\* a user kept by the distinct-basket count whom a count of rows would drop
C11_Witness ==
    /\ op = "filter_users_by_basket_count_range"
    /\ \E u \in Users(df) :
          /\ Len(RowsOfUser(inp, u)) > hi
          /\ u \notin Users(filter_users_by_purchase_range(inp, lo, hi))

\* ------------------------------------------------------------- merge_dataframes

\* A table read by pd.read_csv: its column names and its rows, each row a record
\* over those columns.
Table(cols, rows) == [columns |-> cols, rows |-> rows]

NaN == "NaN"

\* pd.concat([history_df, future_df], ignore_index=True): the rows of the first
\* table, then those of the second, over the union of the two column sets; a
\* column a row's table lacks is filled with NaN.  No error is raised.
concat(history_table, future_table) ==
    LET cols == history_table.columns \cup future_table.columns
        widen(r) == [c \in cols |-> IF c \in DOMAIN r THEN r[c] ELSE NaN]
        all_rows == history_table.rows \o future_table.rows
    IN  Table(cols, [i \in DOMAIN all_rows |-> widen(all_rows[i])])

merge_dataframes(history_table, future_table) == concat(history_table, future_table)

\* The input files: the rows are those of up to MaxRows purchases of one product
\* in one basket; a file has all three columns or lacks the basket or the
\* product column.
MergeColumnSets == {AllColumns, AllColumns \ {basket_col}, AllColumns \ {product_col}}

MergeUserLists ==
    {s \in UNION {[1..k -> 1..NUsers] : k \in 0..MaxRows} :
        \A i \in 1..(Len(s) - 1) : s[i] <= s[i+1]}

MergeTables ==
    {Table(cols, [i \in DOMAIN s |-> [c \in cols |-> Row(s[i], 1, 1)[c]]]) :
        cols \in MergeColumnSets, s \in MergeUserLists}

InitMerge ==
    /\ inp \in [history : MergeTables, future : MergeTables]
    /\ df = <<>>
    /\ columns = {}
    /\ op = "start"
    /\ pc = "start"
    /\ n = 0 /\ lo = 0 /\ hi = 0
    /\ sampled = {}
    /\ history_df = <<>>
    /\ future_df = <<>>
    /\ choice = ""
    /\ files = {}
    /\ established = <<>>

\* cli.py line 88: df = merge_dataframes(history_file, future_file)
MergeDataframes ==
    /\ pc = "start"
    /\ LET merged_df == merge_dataframes(inp.history, inp.future)
       IN  /\ df' = merged_df.rows
           /\ columns' = merged_df.columns
    /\ op' = "merge_dataframes"
    /\ pc' = "menu"
    /\ UNCHANGED <<inp, n, lo, hi, sampled, history_df, future_df,
                   choice, files, established>>

NextMerge == MergeDataframes

SpecMerge == InitMerge /\ [][NextMerge]_vars

\* ------------------------------------------------------------- C12
\* C12: a merge of two tables whose column sets differ fails (SchemaMismatch) and
\* yields no merged dataset; tables with the same column set are concatenated
\* row-wise, without deduplication: as many rows as the two inputs together.
C12_SchemaMismatchRejected ==
    op = "merge_dataframes" =>
        /\ inp.history.columns = inp.future.columns
        /\ df = inp.history.rows \o inp.future.rows
        /\ Len(df) = Len(inp.history.rows) + Len(inp.future.rows)

\* ------------------------------------------------------------- cli.py: the menu loop

get_unique_user_count(d) == Cardinality(unique(d, user_col))

\* str.strip() on the inputs the model enters
strip(text) == IF text \in {"", " "} THEN "" ELSE text

\* what show_menu() can return: the six options and something else
Choices == {"0", "1", "2", "3", "4", "5", "9"}

\* what can be typed as the dataset name
NameInputs == {"", " ", "a"}

\* mutant: the test for an empty dataset left out
basket_filter_refusal_no_empty_test(d, cols) ==
    IF d # <<>> /\ basket_col \notin cols THEN "missing_column" ELSE ""

\* options 2 and 3, lines 116-121 and 133-138: why the filter is not applied
\* ("" when it is applied)
basket_filter_refusal(d, cols) ==
    IF Len(d) = 0 THEN "empty_dataset"
    ELSE IF basket_col \notin cols THEN "missing_column"
    ELSE ""

\* option 5, lines 160-168: why nothing is saved ("" when the save goes on)
save_refusal(d, dataset_name) ==
    IF Len(d) = 0 THEN "empty_dataset"
    ELSE IF dataset_name = "" THEN "empty_name"
    ELSE ""

\* lines 174-178: the two files of a save
written_files(dataset_name, history_rows, future_rows) ==
    {[file |-> <<"output", dataset_name, "history.csv">>, rows |-> history_rows],
     [file |-> <<"output", dataset_name, "future.csv">>, rows |-> future_rows]}

\* The dataset at the menu.  No option of the menu reads the product column, so
\* the rows are purchases of one product; the table has the basket column or
\* lacks it (the user column is read before the loop, at line 89).
CliWithBasket ==
    {s \in UNION {[1..k -> {Row(u, b, 1) : u \in 1..NUsers, b \in 1..NBaskets}] :
                      k \in 0..MaxRows} : IsSorted(s)}

CliWithoutBasket ==
    {[i \in DOMAIN s |-> [c \in AllColumns \ {basket_col} |-> Row(s[i], 1, 1)[c]]] :
        s \in MergeUserLists}

InitCli ==
    /\ \/ df \in CliWithBasket /\ columns = AllColumns
       \/ df \in CliWithoutBasket /\ columns = AllColumns \ {basket_col}
    /\ op = "merge_dataframes"
    /\ pc = "menu"
    /\ inp = <<>>
    /\ n = 0 /\ lo = 0 /\ hi = 0
    /\ sampled = {}
    /\ history_df = <<>>
    /\ future_df = <<>>
    /\ choice = ""
    /\ files = {}
    /\ established = <<>>

\* an option that changes nothing and goes back to the menu
BackToMenu(option, outcome) ==
    /\ choice' = option
    /\ op' = outcome
    /\ inp' = df
    /\ n' = 0 /\ lo' = 0 /\ hi' = 0
    /\ sampled' = {}
    /\ UNCHANGED <<df, columns, pc, files, history_df, future_df, established>>

\* option 1, lines 95-113
MenuSampleUsers ==
    /\ pc = "menu"
    /\ LET current_users == get_unique_user_count(df)
       IN  IF current_users = 0
           THEN BackToMenu("1", "no_users")
           ELSE \E n_users \in 1..current_users :
                  \E sampled_users \in sample(unique(df, user_col), n_users) :
                      /\ df' = sample_random_users(df, sampled_users)
                      /\ choice' = "1"
                      /\ op' = "sample_random_users"
                      /\ inp' = df
                      /\ n' = n_users /\ lo' = 0 /\ hi' = 0
                      /\ sampled' = sampled_users
                      /\ UNCHANGED <<columns, pc, files, history_df, future_df,
                                     established>>

\* option 2, lines 115-130; get_range returns 1 <= min <= max
MenuBasketCount ==
    /\ pc = "menu"
    /\ IF basket_filter_refusal(df, columns) # ""
       THEN BackToMenu("2", basket_filter_refusal(df, columns))
       ELSE \E min_baskets \in 1..MaxParam :
              \E max_baskets \in min_baskets..MaxParam :
                  /\ df' = filter_users_by_basket_count_range(df, min_baskets, max_baskets)
                  /\ choice' = "2"
                  /\ op' = "filter_users_by_basket_count_range"
                  /\ inp' = df
                  /\ n' = 0 /\ lo' = min_baskets /\ hi' = max_baskets
                  /\ sampled' = {}
                  /\ UNCHANGED <<columns, pc, files, history_df, future_df, established>>

\* option 3, lines 132-154
MenuBasketDepth ==
    /\ pc = "menu"
    /\ IF basket_filter_refusal(df, columns) # ""
       THEN BackToMenu("3", basket_filter_refusal(df, columns))
       ELSE \E min_items \in 1..MaxParam :
              \E max_items \in min_items..MaxParam :
                  /\ df' = filter_baskets_by_depth_range(df, min_items, max_items)
                  /\ choice' = "3"
                  /\ op' = "filter_baskets_by_depth_range"
                  /\ inp' = df
                  /\ n' = 0 /\ lo' = min_items /\ hi' = max_items
                  /\ sampled' = {}
                  /\ UNCHANGED <<columns, pc, files, history_df, future_df, established>>

\* option 4, lines 156-157
MenuShowStats ==
    /\ pc = "menu"
    /\ BackToMenu("4", "show_stats")

\* option 5, lines 159-185.  split_history_future reads df[basket_col] without a
\* test for the column: on a table without it pandas raises KeyError, which
\* nothing catches.
MenuSave ==
    /\ pc = "menu"
    /\ \E typed \in NameInputs :
          LET dataset_name == strip(typed)
          IN  IF save_refusal(df, dataset_name) # ""
              THEN BackToMenu("5", save_refusal(df, dataset_name))
              ELSE IF basket_col \notin columns
              THEN /\ pc' = "crashed"
                   /\ choice' = "5"
                   /\ op' = "KeyError"
                   /\ inp' = df
                   /\ n' = 0 /\ lo' = 0 /\ hi' = 0
                   /\ sampled' = {}
                   /\ UNCHANGED <<df, columns, files, history_df, future_df,
                                  established>>
              ELSE LET result == split_history_future(df)
                   IN  /\ history_df' = result.history
                       /\ future_df' = result.future
                       /\ files' = files \cup
                              written_files(dataset_name, result.history, result.future)
                       /\ pc' = "done"
                       /\ choice' = "5"
                       /\ op' = "split_history_future"
                       /\ inp' = df
                       /\ n' = 0 /\ lo' = 0 /\ hi' = 0
                       /\ sampled' = {}
                       /\ UNCHANGED <<df, columns, established>>

\* option 0, lines 187-189
MenuExit ==
    /\ pc = "menu"
    /\ pc' = "done"
    /\ choice' = "0"
    /\ op' = "exit"
    /\ inp' = df
    /\ n' = 0 /\ lo' = 0 /\ hi' = 0
    /\ sampled' = {}
    /\ UNCHANGED <<df, columns, files, history_df, future_df, established>>

\* lines 191-192
MenuInvalid ==
    /\ pc = "menu"
    /\ \E other \in Choices \ {"0", "1", "2", "3", "4", "5"} :
          BackToMenu(other, "invalid_choice")

NextCli ==
    \/ MenuSampleUsers
    \/ MenuBasketCount
    \/ MenuBasketDepth
    \/ MenuShowStats
    \/ MenuSave
    \/ MenuExit
    \/ MenuInvalid

SpecCli == InitCli /\ [][NextCli]_vars

\* ------------------------------------------------------------- C13
\* C13: at the menu, option 2 or option 3 chosen while the dataset is empty or
\* the basket column is absent aborts that operation only: the dataset is
\* unchanged, no filter is applied, and the menu is shown again.
C13_BasketFilterAborted ==
    (choice \in {"2", "3"} /\ (inp = <<>> \/ basket_col \notin columns)) =>
        /\ df = inp
        /\ op \in {"empty_dataset", "missing_column"}
        /\ pc = "menu"

\* option 2 chosen on a dataset with rows but without the basket column
C13_Witness ==
    /\ choice = "2"
    /\ inp # <<>>
    /\ basket_col \notin columns
    /\ op = "missing_column"
    /\ df = inp
    /\ pc = "menu"

\* option 3 chosen on an empty dataset
C13_WitnessEmpty ==
    /\ choice = "3"
    /\ inp = <<>>
    /\ op = "empty_dataset"
    /\ pc = "menu"

\* ------------------------------------------------------------- C17
\* files are written only by option 5, on a dataset with rows, under a name
\* that is not empty
C17_WrittenOnlyBySave ==
    files # {} =>
        /\ choice = "5"
        /\ inp # <<>>
        /\ \A f \in files : f.file[2] # ""

\* a refused save writes nothing, leaves the dataset as it was and returns to
\* the menu
C17_RefusedSave ==
    (choice = "5" /\ op \in {"empty_dataset", "empty_name"}) =>
        /\ files = {}
        /\ df = inp
        /\ pc = "menu"

\* option 0 ends the loop and writes nothing
C17_ExitWritesNothing ==
    choice = "0" => (pc = "done" /\ files = {})

\* the loop has ended only after option 0 or a completed save
C17_EndsOnlyByExitOrSave ==
    pc # "menu" =>
        \/ choice = "0"
        \/ choice = "5" /\ op = "split_history_future" /\ files # {}

\* C17: in the menu loop files are written only by option 5 and only when the
\* dataset is not empty and the name entered is not empty; a refused save writes
\* nothing, leaves the dataset unchanged and returns to the menu; option 0 ends
\* the loop without writing; and the loop ends only after option 0 or a
\* completed option-5 save.
C17_SaveAndExit ==
    /\ C17_WrittenOnlyBySave
    /\ C17_RefusedSave
    /\ C17_ExitWritesNothing
    /\ C17_EndsOnlyByExitOrSave

\* ------------------------------------------------------------- C14
\* C14: a sampling filter applied again to its own output with the same size
\* returns that output: sample_random_users(sample_random_users(d, n), n) has the
\* rows of sample_random_users(d, n), and filter_by_product_assortment applied
\* twice with the same n_products gives what one application gives.  (Whatever
\* the second draw is.)
C14_SamplingIdempotent ==
    /\ op = "sample_random_users" =>
          \A again \in sample(unique(df, user_col), n) :
              sample_random_users(df, again) = df
    /\ op = "filter_by_product_assortment" =>
          \A again \in sample(unique(df, product_col), n) :
              filter_by_product_assortment(df, again) = df

\* a sample that dropped a user and kept one
C14_Witness ==
    /\ op = "sample_random_users"
    /\ n >= 1
    /\ df # <<>>
    /\ Users(inp) \ Users(df) # {}
    /\ \A again \in sample(unique(df, user_col), n) : sample_random_users(df, again) = df

\* an assortment filter that dropped a basket and kept one
C14_WitnessAssortment ==
    /\ op = "filter_by_product_assortment"
    /\ df # <<>>
    /\ df # inp
    /\ \A again \in sample(unique(df, product_col), n) :
          filter_by_product_assortment(df, again) = df

\* ------------------------------------------------------------- C15
\* C15: filter_by_product_assortment decides per (user_id, basket_id) pair: a
\* basket of a user whose products are all in the sampled set is kept, also when
\* another user has a basket of the same basket id with a product outside the
\* sampled set.
C15_AssortmentPerPair ==
    op = "filter_by_product_assortment" =>
        \A k \in Pairs(inp) :
            Products(RowsOfPair(inp, k[1], k[2])) \subseteq sampled =>
                RowsOfPair(df, k[1], k[2]) = RowsOfPair(inp, k[1], k[2])

\* ------------------------------------------------------------- chains of filters

\* A chain of filter calls on one working dataset, each call's result the next
\* call's input, with the arguments the front ends pass: 1 <= min <= max
\* (get_range) and 1 <= n.  The chain opens with a basket-count filter, whose
\* bounds established holds, and goes on with any sequence of the other filters.
\* (Calls before the basket-count filter only drop rows, and every dataset they
\* can leave is an input of the chain already; a second basket-count filter
\* opens the chain anew.)
InitChain ==
    /\ df \in Datasets
    /\ columns = AllColumns
    /\ op = "load"
    /\ pc = "utils"
    /\ inp = <<>>
    /\ n = 0 /\ lo = 0 /\ hi = 0
    /\ sampled = {}
    /\ history_df = <<>>
    /\ future_df = <<>>
    /\ choice = ""
    /\ files = {}
    /\ established = <<>>

\* what a call of a chain leaves alone
chainFrame == <<inp, n, lo, hi, sampled, history_df, future_df, columns, pc, choice, files>>

ChainBasketCount ==
    /\ op = "load"
    /\ \E min_baskets \in 1..MaxParam :
        \E max_baskets \in min_baskets..MaxParam :
            /\ df' = filter_users_by_basket_count_range(df, min_baskets, max_baskets)
            /\ op' = "filter_users_by_basket_count_range"
            /\ established' = <<min_baskets, max_baskets>>
            /\ UNCHANGED chainFrame

ChainBasketDepth ==
    /\ established # <<>>
    /\ \E min_items \in 1..MaxParam :
        \E max_items \in min_items..MaxParam :
            /\ df' = filter_baskets_by_depth_range(df, min_items, max_items)
            /\ op' = "filter_baskets_by_depth_range"
            /\ UNCHANGED established
            /\ UNCHANGED chainFrame

ChainAssortment ==
    /\ established # <<>>
    /\ \E n_products \in 1..MaxParam :
        \E sampled_products_set \in sample(unique(df, product_col), n_products) :
            /\ df' = filter_by_product_assortment(df, sampled_products_set)
            /\ op' = "filter_by_product_assortment"
            /\ UNCHANGED established
            /\ UNCHANGED chainFrame

ChainSampleUsers ==
    /\ established # <<>>
    /\ \E n_users \in 1..MaxParam :
        \E sampled_users \in sample(unique(df, user_col), n_users) :
            /\ df' = sample_random_users(df, sampled_users)
            /\ op' = "sample_random_users"
            /\ UNCHANGED established
            /\ UNCHANGED chainFrame

NextChain ==
    \/ ChainBasketCount
    \/ ChainBasketDepth
    \/ ChainAssortment
    \/ ChainSampleUsers

SpecChain == InitChain /\ [][NextChain]_vars

\* ------------------------------------------------------------- C16
BasketCountsWithin(d, a, b) ==
    \A u \in Users(d) :
        a <= Cardinality(BasketsOf(d, u)) /\ Cardinality(BasketsOf(d, u)) <= b

\* C16: along any sequence of filters, the bound set by
\* filter_users_by_basket_count_range(d, a, b) keeps holding: after a later
\* filter_baskets_by_depth_range or filter_by_product_assortment every user still
\* present has a distinct basket count within [a, b].
C16_BoundKept ==
    established # <<>> => BasketCountsWithin(df, established[1], established[2])

\* C16 as amended: right after the basket-count filter every user has a distinct
\* basket count within [a, b]; after later filters every user still present has
\* at most b distinct baskets (and at least 1): the upper bound is kept, the
\* lower bound a is not.
C16_UpperBoundKept ==
    established # <<>> =>
        /\ BasketCountsWithin(df, 1, established[2])
        /\ op = "filter_users_by_basket_count_range" =>
              BasketCountsWithin(df, established[1], established[2])

\* after a basket-count filter, a depth filter left a user with fewer than a
\* baskets
C16_Witness ==
    /\ established # <<>>
    /\ op = "filter_baskets_by_depth_range"
    /\ \E u \in Users(df) : Cardinality(BasketsOf(df, u)) < established[1]
    /\ BasketCountsWithin(df, 1, established[2])

====
